---- MODULE Spec2Model ----
(***************************************************************************)
(* Reconciliation core of the tyre-shop quotation tool: the App component  *)
(* (visible list, persisted cache, tombstone ledger, pause flag, syncing   *)
(* flag, error slot) and the Google-Sheets adapter it talks to.            *)
(*                                                                         *)
(* JavaScript strings are sequences of one-character strings, so that      *)
(* normalize, trim and the template literals are computed character by     *)
(* character.  The remote store is the environment: every read answers     *)
(* with an arbitrary list of raw rows (or fails), which covers a backend   *)
(* that ignores saves and deletes.                                         *)
(***************************************************************************)
EXTENDS Integers, Sequences, FiniteSets, TLC

(* ---------------------------------------------------------------------- *)
(* Bounds                                                                  *)
(* ---------------------------------------------------------------------- *)

\* asynchronous items (requests in flight, pending timers) that the handlers
\* may have outstanding before a new one is started
MaxPending == 2

\* rows in one answer of the remote store
MaxResp == 2
MaxText == 3
MaxItems == 2

(* ---------------------------------------------------------------------- *)
(* Strings                                                                 *)
(* ---------------------------------------------------------------------- *)

Empty == << >>

\* null and undefined, as values distinct from every string
Null == << "#null" >>
Undefined == << "#undefined" >>

IsSpace(c) == c \in {" ", "\t"}

LowerChar(c) ==
    CASE c = "Q" -> "q"
      [] c = "N" -> "n"
      [] c = "R" -> "r"
      [] c = "Z" -> "z"
      [] c = "T" -> "t"
      [] OTHER -> c

toLowerCase(s) == [i \in 1..Len(s) |-> LowerChar(s[i])]

\* s.trim(): s without its leading and its trailing whitespace
trim(s) ==
    LET solid == { i \in 1..Len(s) : ~IsSpace(s[i]) }
    IN  IF solid = {} THEN Empty
        ELSE SubSeq(s, CHOOSE i \in solid : \A j \in solid : i <= j,
                       CHOOSE i \in solid : \A j \in solid : i >= j)

\* s.replace(/\s+/g, ' '): every maximal run of whitespace becomes one space
collapseSpaces(s) ==
    LET runs == [i \in 1..Len(s) |->
                    IF ~IsSpace(s[i]) THEN s[i]
                    ELSE IF i > 1 /\ IsSpace(s[i - 1]) THEN "" ELSE " "]
    IN  SelectSeq(runs, LAMBDA c : c # "")

\* normalize whose trim takes one whitespace character off each end
normalizeValueTrimsOnce(val) ==
    IF val = Null \/ val = Undefined THEN Empty
    ELSE LET low  == toLowerCase(val)
             from == IF Len(low) > 0 /\ IsSpace(low[1]) THEN 2 ELSE 1
             to   == IF Len(low) > 0 /\ IsSpace(low[Len(low)])
                     THEN Len(low) - 1 ELSE Len(low)
         IN  collapseSpaces(SubSeq(low, from, to))

normalizeValue(val) ==
    IF val = Null \/ val = Undefined THEN Empty
    ELSE collapseSpaces(trim(toLowerCase(val)))

(* ---------------------------------------------------------------------- *)
(* Remote Store Adapter: record normalization                              *)
(* ---------------------------------------------------------------------- *)

Draft == << "Draft" >>
Deleted == << "Deleted" >>

\* a || b for string-or-missing operands
Truthy(v) == v # Undefined /\ v # Null /\ v # Empty
OrElse(a, b) == IF Truthy(a) THEN a ELSE b

charCodeAt(c) ==
    CASE c = "\t" -> 9   [] c = " " -> 32  [] c = "-" -> 45
      [] c = "0" -> 48  [] c = "1" -> 49  [] c = "2" -> 50  [] c = "3" -> 51
      [] c = "4" -> 52  [] c = "5" -> 53  [] c = "6" -> 54  [] c = "7" -> 55
      [] c = "8" -> 56  [] c = "9" -> 57
      [] c = "N" -> 78  [] c = "Q" -> 81  [] c = "R" -> 82  [] c = "T" -> 84
      [] c = "Z" -> 90  [] c = "_" -> 95
      [] c = "n" -> 110 [] c = "q" -> 113 [] c = "r" -> 114 [] c = "t" -> 116
      [] c = "z" -> 122 [] c = "|" -> 124

Base36Digits ==
    << "0", "1", "2", "3", "4", "5", "6", "7", "8", "9", "a", "b", "c", "d",
       "e", "f", "g", "h", "i", "j", "k", "l", "m", "n", "o", "p", "q", "r",
       "s", "t", "u", "v", "w", "x", "y", "z" >>

RECURSIVE toString36(_)
toString36(n) ==
    IF n < 36 THEN << Base36Digits[n + 1] >>
    ELSE toString36(n \div 36) \o << Base36Digits[(n % 36) + 1] >>

\* The 32-bit hash is kept as two 16-bit halves <<hi, lo>> of its
\* two's-complement pattern: hash = ((hash << 5) - hash) + char, wrapped.
RECURSIVE hashLoop(_, _)
hashLoop(h, s) ==
    IF s = Empty THEN h
    ELSE LET lo == 31 * h[2] + charCodeAt(Head(s))
             hi == 31 * h[1] + (lo \div 65536)
         IN  hashLoop(<< hi % 65536, lo % 65536 >>, Tail(s))

generateStableId(str) ==
    IF Len(str) = 0 THEN << "u", "n", "k", "n", "o", "w", "n" >>
    ELSE LET h == hashLoop(<< 0, 0 >>, str)
         IN  IF h[1] < 32768 THEN toString36(h[1] * 65536 + h[2])
             ELSE IF h[1] = 32768 /\ h[2] = 0
                  THEN << "z", "i", "k", "0", "z", "k" >>
                  ELSE toString36((65535 - h[1]) * 65536 + (65536 - h[2]))

\* str.split('T')[0]
RECURSIVE beforeT(_)
beforeT(s) ==
    IF s = Empty \/ Head(s) = "T" THEN Empty
    ELSE << Head(s) >> \o beforeT(Tail(s))

includesT(s) == \E i \in 1..Len(s) : s[i] = "T"

GenMarker == << "g", "e", "n", "_" >>

\* normalizeQuote that replaces the identifiers it generated itself
normalizeQuoteRegenerates(data, today) ==
    LET quoteNum == trim(OrElse(data.quoteNumber, OrElse(data.quote_number, Empty)))
        customer == trim(OrElse(data.customerName, OrElse(data.customer_name, Empty)))
        date0    == trim(OrElse(data.date, OrElse(data.Date, Empty)))
        date1    == IF includesT(date0) THEN beforeT(date0) ELSE date0
        dateStr  == IF date1 = Empty THEN today ELSE date1
        id0      == trim(OrElse(data.id, OrElse(data.Id, Empty)))
        isMissingId == id0 = Empty
                       \/ id0 = << "u", "n", "d", "e", "f", "i", "n", "e", "d" >>
                       \/ id0 = << "n", "u", "l", "l" >>
                       \/ (Len(id0) >= 4 /\ SubSeq(id0, 1, 4) = GenMarker)
        signature == toLowerCase(customer) \o << "|" >> \o dateStr
                         \o << "|" >> \o toLowerCase(quoteNum)
    IN  [ id           |-> IF isMissingId THEN GenMarker \o generateStableId(signature)
                                           ELSE id0,
          quoteNumber  |-> quoteNum,
          date         |-> dateStr,
          customerName |-> customer,
          status       |-> OrElse(data.status, Draft) ]

\* today: new Date().toISOString().split('T')[0] at the time of the call
normalizeQuote(data, today) ==
    LET quoteNum == trim(OrElse(data.quoteNumber, OrElse(data.quote_number, Empty)))
        customer == trim(OrElse(data.customerName, OrElse(data.customer_name, Empty)))
        date0    == trim(OrElse(data.date, OrElse(data.Date, Empty)))
        date1    == IF includesT(date0) THEN beforeT(date0) ELSE date0
        dateStr  == IF date1 = Empty THEN today ELSE date1
        id0      == trim(OrElse(data.id, OrElse(data.Id, Empty)))
        isMissingId == id0 = Empty
                       \/ id0 = << "u", "n", "d", "e", "f", "i", "n", "e", "d" >>
                       \/ id0 = << "n", "u", "l", "l" >>
        signature == toLowerCase(customer) \o << "|" >> \o dateStr
                         \o << "|" >> \o toLowerCase(quoteNum)
    IN  [ id           |-> IF isMissingId THEN GenMarker \o generateStableId(signature)
                                           ELSE id0,
          quoteNumber  |-> quoteNum,
          date         |-> dateStr,
          customerName |-> customer,
          status       |-> OrElse(data.status, Draft) ]

(* ---------------------------------------------------------------------- *)
(* Data the environment and the user can supply                            *)
(* ---------------------------------------------------------------------- *)

RawRow(id, Id, qn, q_n, cn, c_n, d, D, st) ==
    [ id |-> id, Id |-> Id, quoteNumber |-> qn, quote_number |-> q_n,
      customerName |-> cn, customer_name |-> c_n, date |-> d, Date |-> D,
      status |-> st ]

\* A and B differ in the case of every field; C shares only A's quote number
RowA == RawRow(<< "q", "1" >>, Undefined, << "N", " ", "1" >>, Undefined,
               << "R" >>, Undefined, << "5", "T", "9" >>, Undefined, Undefined)
RowB == RawRow(Undefined, << "Q", "1" >>, Undefined, << "n", " ", "\t", "1" >>,
               Undefined, << "r" >>, Undefined, << "5" >>, Draft)
RowC == RawRow(<< "q", "2" >>, Undefined, << "N", " ", "1" >>, Undefined,
               << "Z" >>, Undefined, << "5" >>, Undefined, Undefined)
RowCDeleted == [RowC EXCEPT !.status = Deleted]

\* the calendar date of the session (no row of SheetRows lacks its date)
Today == << "5" >>

\* the rows of the sheet in sheet order; a read answers with some of them
SheetRows == << RowA, RowB, RowC, RowCDeleted >>

SheetRowSet == { SheetRows[k] : k \in 1..Len(SheetRows) }

\* normalizeQuote computed once for each row of the sheet
normalizedRow == [r \in SheetRowSet |-> normalizeQuote(r, Today)]

\* rawData.map(normalizeQuote), read from the table where the table has it
normalizeRows(rawData, today) ==
    [i \in 1..Len(rawData) |->
        IF today = Today /\ rawData[i] \in SheetRowSet
        THEN normalizedRow[rawData[i]]
        ELSE normalizeQuote(rawData[i], today)]

\* fetchQuotes without its filter
fetchQuotesRowsUnfiltered(rawData, today) == normalizeRows(rawData, today)

\* fetchQuotes on a body that carries the rows rawData
fetchQuotesRows(rawData, today) ==
    SelectSeq(normalizeRows(rawData, today), LAMBDA q : q.status # Deleted)

RECURSIVE SubSeqs(_)
SubSeqs(s) ==
    IF s = << >> THEN { << >> }
    ELSE LET rest == SubSeqs(Tail(s))
         IN  rest \cup { << Head(s) >> \o r : r \in rest }

Responses == { r \in SubSeqs(SheetRows) : Len(r) <= MaxResp }

qA == normalizeQuote(RowA, Today)
qB == normalizeQuote(RowB, Today)
qC == normalizeQuote(RowC, Today)

\* quotations the form can hand to handleSaveQuote
FormQuotes == {qA, qB, qC}

QuoteIds == { q.id : q \in FormQuotes }

\* a fingerprint template that leaves the customer out
fingerprintSourceNoCustomer(q) == q.date \o << "_" >> \o q.quoteNumber

\* the template string of getQuoteFingerprint
fingerprintSource(q) ==
    q.date \o << "_" >> \o q.customerName \o << "_" >> \o q.quoteNumber

\* identifiers, quote numbers and fingerprint templates of the quotations
\* above, and their normal forms: the strings normalize is called with
KnownStrings ==
    { << "q", "1" >>, << "Q", "1" >>, << "q", "2" >>,
      << "N", " ", "1" >>, << "n", " ", "\t", "1" >>, << "n", " ", "1" >>,
      << "5", "_", "R", "_", "N", " ", "1" >>,
      << "5", "_", "r", "_", "n", " ", "\t", "1" >>,
      << "5", "_", "Z", "_", "N", " ", "1" >>,
      << "5", "_", "r", "_", "n", " ", "1" >>,
      << "5", "_", "z", "_", "n", " ", "1" >>,
      Empty, Null, Undefined }

\* normalizeValue computed once for each of the known strings
normalized == [v \in KnownStrings |-> normalizeValue(v)]

\* normalize(val) of the source, read from the table where the table has it
normalize(val) ==
    IF val \in KnownStrings THEN normalized[val] ELSE normalizeValue(val)

getQuoteFingerprint(q) == normalize(fingerprintSource(q))

(* ---------------------------------------------------------------------- *)
(* State                                                                   *)
(* ---------------------------------------------------------------------- *)

VARIABLES
    quotes,           \* useState quotes: the visible list
    tyreQuotes,       \* localStorage 'tyreQuotes': the persisted cache
    bl_ids,           \* localStorage 'bl_ids'
    bl_numbers,       \* localStorage 'bl_numbers'
    bl_fingerprints,  \* localStorage 'bl_fingerprints'
    blacklistedIds,   \* localStorage 'blacklistedIds': the legacy ledger
    isSyncing,        \* useState isSyncing
    errorMsg,         \* useState errorMsg: "none" for null
    pauseSyncRef,     \* pauseSyncRef.current
    isAppReady,       \* useState isAppReady
    fgFetch,          \* foreground fetchRemoteQuotes calls awaiting fetchQuotes
    bgFetch,          \* background fetchRemoteQuotes calls awaiting fetchQuotes
    saves,            \* handleSaveQuote calls awaiting saveQuote, by quotation id
    delSoft,          \* deleteQuote calls awaiting the soft-delete request
    delFallback,      \* deleteQuote calls awaiting the fallback hard delete
    hardFF,           \* fire-and-forget hard-delete requests in flight
    timers,           \* pending setTimeout callbacks, in the order scheduled
    pc,               \* position inside handleDeleteQuote, "idle" outside
    delQ,             \* quoteToDelete of the running handleDeleteQuote
    lastEvent,        \* history: the step just taken and its input
    deletedIds        \* history: ids deleted, neither saved again nor listed since

storage == << tyreQuotes, bl_ids, bl_numbers, bl_fingerprints, blacklistedIds >>
ledger  == << bl_ids, bl_numbers, bl_fingerprints, blacklistedIds >>
inflight == << fgFetch, bgFetch, saves, delSoft, delFallback, hardFF, timers >>
history == << lastEvent, deletedIds >>
vars == << quotes, storage, isSyncing, errorMsg, pauseSyncRef, isAppReady,
           inflight, pc, delQ, history >>

NoQuote == [ id |-> Empty, quoteNumber |-> Empty, date |-> Empty,
             customerName |-> Empty, status |-> Draft ]

\* lastEvent names the steps whose outcome leaves no other trace in the
\* state; every other step is recorded as "step"
Ev(op, id, bg, resp) == [ op |-> op, id |-> id, bg |-> bg, resp |-> resp ]

Pending ==
    fgFetch + bgFetch + Len(saves) + delSoft + delFallback + hardFF + Len(timers)

IdsOf(list) == { list[i].id : i \in 1..Len(list) }

(* ---------------------------------------------------------------------- *)
(* Tombstone ledger                                                        *)
(* ---------------------------------------------------------------------- *)

\* a ledger read that leaves the legacy key unread
getLocallyBlacklistedItemsNoLegacy ==
    [ ids          |-> bl_ids,
      numbers      |-> bl_numbers,
      fingerprints |-> bl_fingerprints ]

getLocallyBlacklistedItems ==
    [ ids          |-> bl_ids \cup { normalize(i) : i \in blacklistedIds },
      numbers      |-> bl_numbers,
      fingerprints |-> bl_fingerprints ]

\* isFilteredOut with the quote-number check left out
isFilteredOutNoNumber(q, L) ==
    \/ q.status = Deleted
    \/ normalize(q.id) \in L.ids
    \/ getQuoteFingerprint(q) \in L.fingerprints

\* the filter of fetchRemoteQuotes applied to one fetched quotation
isFilteredOut(q, L) ==
    \/ q.status = Deleted
    \/ normalize(q.id) \in L.ids
    \/ normalize(q.quoteNumber) \in L.numbers
    \/ getQuoteFingerprint(q) \in L.fingerprints

validQuotes(cloudQuotes, L) ==
    SelectSeq(cloudQuotes, LAMBDA q : ~isFilteredOut(q, L))

(* ---------------------------------------------------------------------- *)
(* App start                                                               *)
(* ---------------------------------------------------------------------- *)

\* initApp has run up to its await: the service exists and the first
\* foreground fetch is in flight.  Storage holds what an earlier session left.
Init ==
    /\ quotes = << >>
    /\ tyreQuotes \in { << >>, << qA >> }
    /\ bl_ids = {}
    /\ bl_numbers = {}
    /\ bl_fingerprints = {}
    /\ blacklistedIds \in { {}, { << "Q", "1" >> } }
    /\ isSyncing = TRUE
    /\ errorMsg = "none"
    /\ pauseSyncRef = FALSE
    /\ isAppReady = FALSE
    /\ fgFetch = 1
    /\ bgFetch = 0
    /\ saves = << >>
    /\ delSoft = 0
    /\ delFallback = 0
    /\ hardFF = 0
    /\ timers = << >>
    /\ pc = "idle"
    /\ delQ = NoQuote
    /\ lastEvent = Ev("step", Empty, FALSE, << >>)
    /\ deletedIds = {}

(* ---------------------------------------------------------------------- *)
(* fetchRemoteQuotes                                                       *)
(* ---------------------------------------------------------------------- *)

\* The part of fetchRemoteQuotes before the await.  Every caller runs it with
\* the pause flag clear (the interval checks the flag, handleRefresh and the
\* save timer clear it first), so the initial guard never returns early.
StartFetch(isBackground) ==
    /\ isSyncing' = IF isBackground THEN isSyncing ELSE TRUE
    /\ errorMsg' = "none"
    /\ fgFetch' = IF isBackground THEN fgFetch ELSE fgFetch + 1
    /\ bgFetch' = IF isBackground THEN bgFetch + 1 ELSE bgFetch

\* setInterval callback, every 30 s
IntervalTick ==
    /\ pc = "idle"
    /\ Pending < MaxPending
    /\ ~isSyncing /\ ~pauseSyncRef
    /\ StartFetch(TRUE)
    /\ lastEvent' = Ev("step", Empty, FALSE, << >>)
    /\ UNCHANGED << quotes, storage, pauseSyncRef, isAppReady, saves, delSoft,
                    delFallback, hardFF, timers, pc, delQ, deletedIds >>

\* the refresh control of the header (disabled while isSyncing)
handleRefresh ==
    /\ pc = "idle"
    /\ isAppReady
    /\ Pending < MaxPending
    /\ ~isSyncing
    /\ pauseSyncRef' = FALSE
    /\ StartFetch(FALSE)
    /\ lastEvent' = Ev("step", Empty, FALSE, << >>)
    /\ UNCHANGED << quotes, storage, isAppReady, saves, delSoft, delFallback,
                    hardFF, timers, pc, delQ, deletedIds >>

FetchTaken(isBackground) ==
    /\ IF isBackground THEN bgFetch > 0 ELSE fgFetch > 0
    /\ fgFetch' = IF isBackground THEN fgFetch ELSE fgFetch - 1
    /\ bgFetch' = IF isBackground THEN bgFetch - 1 ELSE bgFetch

\* fetchRemoteQuotes without its secondary guard
SecondaryGuardMissing == FALSE

\* the secondary guard: TRUE when the resolved fetch has to be dropped
SecondaryGuard == pauseSyncRef

\* fetchQuotes resolved with the rows resp; the rest of fetchRemoteQuotes
FetchResolve(isBackground, resp) ==
    /\ pc = "idle"
    /\ FetchTaken(isBackground)
    /\ IF SecondaryGuard
       THEN /\ UNCHANGED << quotes, tyreQuotes >>
            /\ lastEvent' = Ev("discard", Empty, isBackground, << >>)
            /\ deletedIds' = deletedIds
       ELSE /\ quotes' = validQuotes(fetchQuotesRows(resp, Today),
                                      getLocallyBlacklistedItems)
            /\ tyreQuotes' = quotes'
            /\ lastEvent' = Ev("apply", Empty, isBackground,
                               normalizeRows(resp, Today))
            /\ deletedIds' = deletedIds \ IdsOf(quotes')
    /\ isSyncing' = IF isBackground THEN isSyncing ELSE FALSE
    /\ isAppReady' = (isAppReady \/ ~isBackground)
    /\ UNCHANGED << ledger, errorMsg, pauseSyncRef, saves, delSoft, delFallback,
                    hardFF, timers, pc, delQ >>

\* fetchRemoteQuotes whose catch reports every failure
FetchRejectAlwaysReports(isBackground) ==
    /\ pc = "idle"
    /\ FetchTaken(isBackground)
    /\ errorMsg' = "error"
    /\ isSyncing' = IF isBackground THEN isSyncing ELSE FALSE
    /\ isAppReady' = (isAppReady \/ ~isBackground)
    /\ lastEvent' = Ev("fetch_failed", Empty, isBackground, << >>)
    /\ UNCHANGED << quotes, storage, pauseSyncRef, saves, delSoft, delFallback,
                    hardFF, timers, pc, delQ, deletedIds >>

\* fetchQuotes threw (HTTP status, HTML body, unparsable body, network)
FetchReject(isBackground) ==
    /\ pc = "idle"
    /\ FetchTaken(isBackground)
    /\ errorMsg' = IF isBackground THEN errorMsg ELSE "error"
    /\ isSyncing' = IF isBackground THEN isSyncing ELSE FALSE
    /\ isAppReady' = (isAppReady \/ ~isBackground)
    /\ lastEvent' = Ev("fetch_failed", Empty, isBackground, << >>)
    /\ UNCHANGED << quotes, storage, pauseSyncRef, saves, delSoft, delFallback,
                    hardFF, timers, pc, delQ, deletedIds >>

(* ---------------------------------------------------------------------- *)
(* handleSaveQuote                                                         *)
(* ---------------------------------------------------------------------- *)

RECURSIVE findIndex(_, _, _)
findIndex(list, id, i) ==
    IF i > Len(list) THEN 0
    ELSE IF list[i].id = id THEN i ELSE findIndex(list, id, i + 1)

updatedQuotes(list, quote) ==
    LET existingIndex == findIndex(list, quote.id, 1)
    IN  IF existingIndex > 0 THEN [list EXCEPT ![existingIndex] = quote]
        ELSE Append(list, quote)

\* a resurrection branch that forgets every stored identifier on a match
resurrectForgetsIds(quote, L) ==
    LET qId == normalize(quote.id)
        qNum == normalize(quote.quoteNumber)
        qPrint == getQuoteFingerprint(quote)
    IN  IF qId \in L.ids \/ qNum \in L.numbers \/ qPrint \in L.fingerprints
        THEN [ written      |-> TRUE,
               ids          |-> {},
               numbers      |-> L.numbers \ {qNum},
               fingerprints |-> L.fingerprints \ {qPrint} ]
        ELSE [ written      |-> FALSE,
               ids          |-> L.ids,
               numbers      |-> L.numbers,
               fingerprints |-> L.fingerprints ]

\* the resurrection branch: the three ledger sets handleSaveQuote leaves behind
resurrect(quote, L) ==
    LET qId == normalize(quote.id)
        qNum == normalize(quote.quoteNumber)
        qPrint == getQuoteFingerprint(quote)
    IN  IF qId \in L.ids \/ qNum \in L.numbers \/ qPrint \in L.fingerprints
        THEN [ written      |-> TRUE,
               ids          |-> L.ids \ {qId},
               numbers      |-> L.numbers \ {qNum},
               fingerprints |-> L.fingerprints \ {qPrint} ]
        ELSE [ written      |-> FALSE,
               ids          |-> L.ids,
               numbers      |-> L.numbers,
               fingerprints |-> L.fingerprints ]

\* handleSaveQuote up to its await
handleSaveQuote(quote) ==
    /\ pc = "idle"
    /\ isAppReady
    /\ Pending < MaxPending
    /\ quotes' = updatedQuotes(quotes, quote)
    /\ LET r == resurrect(quote, getLocallyBlacklistedItems)
       IN  IF r.written
           THEN /\ bl_ids' = r.ids
                /\ bl_numbers' = r.numbers
                /\ bl_fingerprints' = r.fingerprints
           ELSE UNCHANGED << bl_ids, bl_numbers, bl_fingerprints >>
    /\ tyreQuotes' = updatedQuotes(quotes, quote)
    /\ isSyncing' = TRUE
    /\ pauseSyncRef' = TRUE
    /\ saves' = Append(saves, quote.id)
    /\ lastEvent' = Ev("step", Empty, FALSE, << >>)
    /\ deletedIds' = deletedIds \ {quote.id}
    /\ UNCHANGED << blacklistedIds, errorMsg, isAppReady, fgFetch, bgFetch,
                    delSoft, delFallback, hardFF, timers, pc, delQ >>

RemoveAt(seq, i) == SubSeq(seq, 1, i - 1) \o SubSeq(seq, i + 1, Len(seq))

\* saveQuote resolved: the 2 s timer is scheduled, then finally
SaveResolve(i) ==
    /\ pc = "idle"
    /\ i \in 1..Len(saves)
    /\ saves' = RemoveAt(saves, i)
    /\ timers' = Append(timers, "save")
    /\ isSyncing' = FALSE
    /\ lastEvent' = Ev("step", Empty, FALSE, << >>)
    /\ UNCHANGED << quotes, storage, errorMsg, pauseSyncRef, isAppReady, fgFetch,
                    bgFetch, delSoft, delFallback, hardFF, pc, delQ, deletedIds >>

\* saveQuote rejected: the catch block, then finally
SaveReject(i) ==
    /\ pc = "idle"
    /\ i \in 1..Len(saves)
    /\ saves' = RemoveAt(saves, i)
    /\ pauseSyncRef' = FALSE
    /\ isSyncing' = FALSE
    /\ lastEvent' = Ev("save_failed", saves[i], FALSE, << >>)
    /\ UNCHANGED << quotes, storage, errorMsg, isAppReady, fgFetch, bgFetch,
                    delSoft, delFallback, hardFF, timers, pc, delQ, deletedIds >>

\* A 2 s timer expires before every timer scheduled after it, and before an
\* 8 s timer scheduled at the same time or later: a "save" timer needs no
\* earlier "save" timer pending, a "del" timer needs to be the oldest.
CanFire(i) ==
    /\ i \in 1..Len(timers)
    /\ IF timers[i] = "save"
       THEN \A j \in 1..(i - 1) : timers[j] # "save"
       ELSE i = 1

\* the timer callback of handleSaveQuote
SaveTimerFires(i) ==
    /\ pc = "idle"
    /\ CanFire(i)
    /\ timers[i] = "save"
    /\ pauseSyncRef' = FALSE
    /\ StartFetch(TRUE)
    /\ timers' = RemoveAt(timers, i)
    /\ lastEvent' = Ev("step", Empty, FALSE, << >>)
    /\ UNCHANGED << quotes, storage, isAppReady, saves, delSoft,
                    delFallback, hardFF, pc, delQ, deletedIds >>

(* ---------------------------------------------------------------------- *)
(* handleDeleteQuote                                                       *)
(* ---------------------------------------------------------------------- *)

RECURSIVE find(_, _, _)
find(list, id, i) ==
    IF i > Len(list) THEN NoQuote
    ELSE IF list[i].id = id THEN list[i] ELSE find(list, id, i + 1)

\* quoteToDelete is missing: the fallback filter, then return
DeleteNotFound(id) ==
    /\ pc = "idle"
    /\ isAppReady
    /\ id \notin IdsOf(quotes)
    /\ quotes' = SelectSeq(quotes, LAMBDA q : q.id # id)
    /\ lastEvent' = Ev("step", Empty, FALSE, << >>)
    /\ UNCHANGED << storage, isSyncing, errorMsg, pauseSyncRef, isAppReady,
                    inflight, pc, delQ, deletedIds >>

\* step 1: PAUSE SYNC IMMEDIATELY
DeletePause(id) ==
    /\ pc = "idle"
    /\ isAppReady
    /\ Pending < MaxPending
    /\ id \in IdsOf(quotes)
    /\ delQ' = find(quotes, id, 1)
    /\ pauseSyncRef' = TRUE
    /\ pc' = "ledger"
    /\ lastEvent' = Ev("step", Empty, FALSE, << >>)
    /\ UNCHANGED << quotes, storage, isSyncing, errorMsg, isAppReady, inflight,
                    deletedIds >>

\* a tombstoning block that starts from empty sets
tombstoneFresh(q, L) ==
    [ ids          |-> IF q.id # Empty THEN {normalize(q.id)} ELSE {},
      numbers      |-> IF q.quoteNumber # Empty THEN {normalize(q.quoteNumber)}
                       ELSE {},
      fingerprints |-> {getQuoteFingerprint(q)} ]

\* the three ledger sets written by the tombstoning block
tombstone(q, L) ==
    [ ids          |-> IF q.id # Empty THEN L.ids \cup {normalize(q.id)} ELSE L.ids,
      numbers      |-> IF q.quoteNumber # Empty
                       THEN L.numbers \cup {normalize(q.quoteNumber)}
                       ELSE L.numbers,
      fingerprints |-> L.fingerprints \cup {getQuoteFingerprint(q)} ]

\* step 2: ADD TO TRIPLE-LOCK BLACKLIST
DeleteLedger ==
    /\ pc = "ledger"
    /\ LET t == tombstone(delQ, getLocallyBlacklistedItems)
       IN  /\ bl_ids' = t.ids
           /\ bl_numbers' = t.numbers
           /\ bl_fingerprints' = t.fingerprints
    /\ pc' = "local"
    /\ lastEvent' = Ev("step", Empty, FALSE, << >>)
    /\ UNCHANGED << quotes, tyreQuotes, blacklistedIds, isSyncing, errorMsg,
                    pauseSyncRef, isAppReady, inflight, delQ, deletedIds >>

\* step 3 without the write of the cache
DeleteLocalListOnly ==
    /\ pc = "local"
    /\ quotes' = SelectSeq(quotes, LAMBDA q : q.id # delQ.id)
    /\ pc' = "net"
    /\ lastEvent' = Ev("step", Empty, FALSE, << >>)
    /\ UNCHANGED << storage, isSyncing, errorMsg, pauseSyncRef, isAppReady,
                    inflight, delQ, deletedIds >>

\* step 3: IMMEDIATE UI UPDATE and cache write
DeleteLocal ==
    /\ pc = "local"
    /\ quotes' = SelectSeq(quotes, LAMBDA q : q.id # delQ.id)
    /\ tyreQuotes' = SelectSeq(quotes, LAMBDA q : q.id # delQ.id)
    /\ pc' = "net"
    /\ lastEvent' = Ev("step", Empty, FALSE, << >>)
    /\ UNCHANGED << ledger, isSyncing, errorMsg, pauseSyncRef, isAppReady,
                    inflight, delQ, deletedIds >>

\* step 4: FIRE AND FORGET BACKEND REQUEST (deleteQuote sends the soft delete)
DeleteSend ==
    /\ pc = "net"
    /\ delSoft' = delSoft + 1
    /\ pc' = "idle"
    /\ delQ' = NoQuote
    /\ lastEvent' = Ev("step", Empty, FALSE, << >>)
    /\ deletedIds' = deletedIds \cup {delQ.id}
    /\ UNCHANGED << quotes, storage, isSyncing, errorMsg, pauseSyncRef,
                    isAppReady, fgFetch, bgFetch, saves, delFallback, hardFF,
                    timers >>

\* what every step of deleteQuote and of its promise chain leaves alone
DeleteFrame ==
    UNCHANGED << quotes, storage, isSyncing, errorMsg, isAppReady, fgFetch,
                 bgFetch, saves, pc, delQ, deletedIds >>

\* the soft delete resolved and deleteQuote awaits the hard delete it sends
SoftDeleteResolveAwaitsHard ==
    /\ pc = "idle"
    /\ delSoft > 0
    /\ delSoft' = delSoft - 1
    /\ hardFF' = hardFF + 1
    /\ lastEvent' = Ev("step", Empty, FALSE, << >>)
    /\ UNCHANGED << pauseSyncRef, delFallback, timers >>
    /\ DeleteFrame

\* the soft delete resolved: the hard delete is fired and not awaited,
\* deleteQuote resolves, finally schedules the 8 s timer
SoftDeleteResolve ==
    /\ pc = "idle"
    /\ delSoft > 0
    /\ delSoft' = delSoft - 1
    /\ hardFF' = hardFF + 1
    /\ timers' = Append(timers, "del")
    /\ lastEvent' = Ev("step", Empty, FALSE, << >>)
    /\ UNCHANGED << pauseSyncRef, delFallback >>
    /\ DeleteFrame

\* the soft delete rejected: the fallback hard delete is sent and awaited
SoftDeleteReject ==
    /\ pc = "idle"
    /\ delSoft > 0
    /\ delSoft' = delSoft - 1
    /\ delFallback' = delFallback + 1
    /\ lastEvent' = Ev("step", Empty, FALSE, << >>)
    /\ UNCHANGED << pauseSyncRef, hardFF, timers >>
    /\ DeleteFrame

\* the fallback hard delete reporting its failure in the error slot
FallbackSettleShowsError(ok) ==
    /\ pc = "idle"
    /\ delFallback > 0
    /\ delFallback' = delFallback - 1
    /\ timers' = Append(timers, "del")
    /\ errorMsg' = IF ok THEN errorMsg ELSE "error"
    /\ lastEvent' = Ev(IF ok THEN "step" ELSE "fallback_failed",
                       Empty, FALSE, << >>)
    /\ UNCHANGED << quotes, storage, isSyncing, isAppReady, fgFetch, bgFetch,
                    saves, pc, delQ, deletedIds, pauseSyncRef,
                    delSoft, hardFF >>

\* the fallback hard delete settled either way: deleteQuote resolves
FallbackSettle(ok) ==
    /\ pc = "idle"
    /\ delFallback > 0
    /\ delFallback' = delFallback - 1
    /\ timers' = Append(timers, "del")
    /\ lastEvent' = Ev(IF ok THEN "step" ELSE "fallback_failed",
                       Empty, FALSE, << >>)
    /\ UNCHANGED << pauseSyncRef, delSoft, hardFF >>
    /\ DeleteFrame

\* the fire-and-forget hard delete settled either way: .catch(() => {})
HardDeleteSettle(ok) ==
    /\ pc = "idle"
    /\ hardFF > 0
    /\ hardFF' = hardFF - 1
    /\ lastEvent' = Ev("step", Empty, FALSE, << >>)
    /\ UNCHANGED << pauseSyncRef, delSoft, delFallback, timers >>
    /\ DeleteFrame

\* a cooldown callback that drops out without clearing the flag
DeleteTimerFiresKeepsPause ==
    /\ pc = "idle"
    /\ CanFire(1)
    /\ timers[1] = "del"
    /\ timers' = Tail(timers)
    /\ lastEvent' = Ev("step", Empty, FALSE, << >>)
    /\ UNCHANGED << pauseSyncRef, delSoft, delFallback, hardFF >>
    /\ DeleteFrame

\* the 8 s timer callback of handleDeleteQuote
DeleteTimerFires ==
    /\ pc = "idle"
    /\ CanFire(1)
    /\ timers[1] = "del"
    /\ pauseSyncRef' = FALSE
    /\ timers' = Tail(timers)
    /\ lastEvent' = Ev("step", Empty, FALSE, << >>)
    /\ UNCHANGED << delSoft, delFallback, hardFF >>
    /\ DeleteFrame

(* ---------------------------------------------------------------------- *)
(* Specification                                                           *)
(* ---------------------------------------------------------------------- *)

Next ==
    \/ IntervalTick
    \/ handleRefresh
    \/ \E b \in BOOLEAN, resp \in Responses : FetchResolve(b, resp)
    \/ \E b \in BOOLEAN : FetchReject(b)
    \/ \E quote \in FormQuotes : handleSaveQuote(quote)
    \/ \E i \in 1..MaxPending + 1 : SaveResolve(i)
    \/ \E i \in 1..MaxPending + 1 : SaveReject(i)
    \/ \E i \in 1..Len(timers) : SaveTimerFires(i)
    \/ \E id \in QuoteIds : DeleteNotFound(id)
    \/ \E id \in QuoteIds : DeletePause(id)
    \/ DeleteLedger
    \/ DeleteLocal
    \/ DeleteSend
    \/ SoftDeleteResolve
    \/ SoftDeleteReject
    \/ \E ok \in BOOLEAN : FallbackSettle(ok)
    \/ \E ok \in BOOLEAN : HardDeleteSettle(ok)
    \/ DeleteTimerFires

Spec == Init /\ [][Next]_vars

(* ---------------------------------------------------------------------- *)
(* Properties                                                              *)
(* ---------------------------------------------------------------------- *)

FetchSettles == fgFetch' < fgFetch \/ bgFetch' < bgFetch

Applied == lastEvent'.op = "apply"

Listed(i) == i \in IdsOf(quotes) \cup IdsOf(tyreQuotes)

\* C1: once handleDeleteQuote has removed a quotation, no fetch application
\* puts it back into the visible list or the cache for as long as that
\* quotation is not saved again.
C1_NoReappearance ==
    [][Applied => \A i \in deletedIds : ~Listed(i)']_vars

\* deletes whose backend request or cooldown timer is still outstanding
OpenDeletes ==
    (IF pc = "idle" THEN 0 ELSE 1) + delSoft + delFallback
        + Cardinality({ k \in 1..Len(timers) : timers[k] = "del" })

\* C2: while a delete that set the pause flag has not yet settled and cooled
\* down, only the explicit refresh clears the flag.
C2_PauseHeld ==
    [][(pauseSyncRef /\ ~pauseSyncRef' /\ OpenDeletes' > 0)
          => fgFetch' > fgFetch]_vars

Marked(q) ==
    /\ q.id # Empty => normalize(q.id) \in bl_ids
    /\ q.quoteNumber # Empty => normalize(q.quoteNumber) \in bl_numbers
    /\ getQuoteFingerprint(q) \in bl_fingerprints

\* what the steps of handleDeleteQuote before the current one have done
DeleteStepsDone ==
    /\ pc \in {"ledger", "local", "net"} => pauseSyncRef
    /\ pc \in {"local", "net"} => Marked(delQ)
    /\ pc = "net" => ~Listed(delQ.id)

C4_NoApplyWhilePaused ==
    [][(FetchSettles /\ pauseSyncRef)
          => (quotes' = quotes /\ tyreQuotes' = tyreQuotes /\ ~Applied)]_vars

\* a foreground fetch with rows to show resolved under the pause flag
C4_Witness ==
    /\ lastEvent.op = "discard"
    /\ ~lastEvent.bg
    /\ pauseSyncRef

SavedQuote(id) == CHOOSE q \in FormQuotes : q.id = id

Tombstoned(q, L) ==
    \/ normalize(q.id) \in L.ids
    \/ normalize(q.quoteNumber) \in L.numbers
    \/ getQuoteFingerprint(q) \in L.fingerprints

\* C5: after handleSaveQuote(q) the ledger as the next fetch reads it holds
\* none of q's identifier, quote number and fingerprint.
C5_Resurrected ==
    [][Len(saves') > Len(saves)
          => ~Tombstoned(SavedQuote(saves'[Len(saves')]),
                         getLocallyBlacklistedItems')]_vars

\* C6: a quotation whose upload has just failed is still in the visible
\* list and in the cache after the next operation.
C6_FailedSaveKept ==
    [][(lastEvent.op = "save_failed" /\ lastEvent.id \in IdsOf(quotes))
          => (lastEvent.id \in IdsOf(quotes') /\ lastEvent.id \in IdsOf(tyreQuotes'))]_vars

\* a step of handleDeleteQuote, of deleteQuote or of the cooldown timer
DeleteStep ==
    \/ pc # "idle"
    \/ pc' # "idle"
    \/ delSoft' # delSoft
    \/ delFallback' # delFallback
    \/ hardFF' # hardFF
    \/ (timers # << >> /\ timers[1] = "del" /\ timers' = Tail(timers))

LedgerGrows ==
    /\ getLocallyBlacklistedItems.ids \subseteq getLocallyBlacklistedItems'.ids
    /\ bl_numbers \subseteq bl_numbers'
    /\ bl_fingerprints \subseteq bl_fingerprints'

\* C7: no step of a delete, whatever the outcome of its requests, adds a
\* quotation to the list or the cache, removes a ledger entry or writes the
\* error slot; the steps after the handler leave list, cache and ledger
\* untouched.
C7_DeleteNeverRollsBack ==
    [][DeleteStep =>
          /\ errorMsg' = errorMsg
          /\ LedgerGrows
          /\ IdsOf(quotes') \subseteq IdsOf(quotes)
          /\ IdsOf(tyreQuotes') \subseteq IdsOf(tyreQuotes)
          /\ (pc = "idle" /\ pc' = "idle") => UNCHANGED << quotes, storage >>]_vars

\* soft delete and fallback hard delete have both failed
C7_Witness ==
    /\ lastEvent.op = "fallback_failed"
    /\ deletedIds # {}
    /\ \A i \in deletedIds : ~Listed(i)

\* the rule of C8, from the three stored sets and the legacy store
Kept(q) ==
    /\ q.status # Deleted
    /\ normalize(q.id) \notin bl_ids \cup { normalize(i) : i \in blacklistedIds }
    /\ normalize(q.quoteNumber) \notin bl_numbers
    /\ getQuoteFingerprint(q) \notin bl_fingerprints

\* C8: an applied fetch keeps exactly the fetched records that are not
\* Deleted and match no ledger set, with the ledger as stored at that moment.
C8_FilterExact ==
    [][Applied =>
          /\ quotes' = SelectSeq(lastEvent'.resp, Kept)
          /\ tyreQuotes' = SelectSeq(lastEvent'.resp, Kept)]_vars

\* a fetch was applied that dropped a record for its quote number alone
C8_Witness ==
    /\ lastEvent.op = "apply"
    /\ \E k \in 1..Len(lastEvent.resp) :
          LET q == lastEvent.resp[k]
          IN  /\ q.status # Deleted
              /\ normalize(q.quoteNumber) \in bl_numbers
              /\ normalize(q.id) \notin getLocallyBlacklistedItems.ids
              /\ getQuoteFingerprint(q) \notin bl_fingerprints

\* C9: a background fetch is started only with the syncing flag and the
\* pause flag both clear, and its result is applied only with both clear.
C9_BackgroundGuarded ==
    [][/\ bgFetch' > bgFetch => (~isSyncing /\ ~pauseSyncRef')
       /\ (Applied /\ lastEvent'.bg) => (~isSyncing /\ ~pauseSyncRef)]_vars

\* C10: at most one foreground fetch is in flight.
C10_OneForegroundFetch == fgFetch <= 1

\* C11: a failed fetch leaves the visible list, the cache and the ledger
\* unchanged, puts an error into the error slot when it was a foreground
\* fetch and leaves the error slot as it was when it was a background fetch.
C11_FetchFailure ==
    [][lastEvent'.op = "fetch_failed" =>
          /\ quotes' = quotes
          /\ storage' = storage
          /\ errorMsg' = IF lastEvent'.bg THEN errorMsg ELSE "error"]_vars

\* a background fetch failed with quotations listed and the error slot empty
C11_Witness ==
    /\ lastEvent.op = "fetch_failed"
    /\ lastEvent.bg
    /\ quotes # << >>
    /\ errorMsg = "none"

\* C23: deleteQuote sends the soft delete first and alone; the hard delete
\* is sent in the step in which the soft delete settles, once: unawaited
\* when the soft delete resolved, deleteQuote resolving in that same step,
\* and awaited as the fallback when it rejected; the settling of the
\* unawaited hard delete is no step of deleteQuote's promise.
C23_SoftThenHard ==
    [][/\ delSoft' > delSoft => (hardFF' = hardFF /\ delFallback' = delFallback)
       /\ hardFF' + delFallback' > hardFF + delFallback =>
              /\ delSoft' = delSoft - 1
              /\ hardFF' + delFallback' = hardFF + delFallback + 1
       /\ delSoft' < delSoft =>
              hardFF' + delFallback' = hardFF + delFallback + 1
       /\ hardFF' > hardFF => timers' = Append(timers, "del")
       /\ delFallback' > delFallback => timers' = timers
       /\ delFallback' < delFallback =>
              (timers' = Append(timers, "del") /\ hardFF' = hardFF)
       /\ hardFF' < hardFF => (timers' = timers /\ pauseSyncRef' = pauseSyncRef)]_vars

\* deleteQuote has resolved (its cooldown timer is pending) while the hard
\* delete it sent is still in flight
C23_Witness ==
    /\ hardFF = 1
    /\ delSoft = 0 /\ delFallback = 0 /\ saves = << >>
    /\ timers = << "del" >>

(* ---------------------------------------------------------------------- *)
(* The application on a sheet with a row that has no quote number          *)
(* ---------------------------------------------------------------------- *)

RowNoNumber == RawRow(<< "q", "3" >>, Undefined, Undefined, Undefined,
                      << "Z" >>, Undefined, << "5" >>, Undefined, Undefined)

NoNumberResponses == { << >>, << RowA >>, << RowNoNumber >>, << RowA, RowNoNumber >> }

NoNumberIds == { RowA.id, RowNoNumber.id }

NoNumberNext ==
    \/ IntervalTick
    \/ handleRefresh
    \/ \E b \in BOOLEAN, resp \in NoNumberResponses : FetchResolve(b, resp)
    \/ \E b \in BOOLEAN : FetchReject(b)
    \/ \E id \in NoNumberIds : DeleteNotFound(id)
    \/ \E id \in NoNumberIds : DeletePause(id)
    \/ DeleteLedger
    \/ DeleteLocal
    \/ DeleteSend
    \/ SoftDeleteResolve
    \/ SoftDeleteReject
    \/ \E ok \in BOOLEAN : FallbackSettle(ok)
    \/ \E ok \in BOOLEAN : HardDeleteSettle(ok)
    \/ DeleteTimerFires

NoNumberSpec == Init /\ [][NoNumberNext]_vars

\* the steps of handleDeleteQuote other than the tombstoning block leave the
\* four ledger keys alone
LedgerOnlyInBlock ==
    ((pc # "idle" \/ pc' # "idle") /\ pc # "ledger") => ledger' = ledger

handleBackup ==
    /\ pc = "idle"
    /\ isAppReady
    /\ lastEvent' = Ev("backup", Empty, FALSE, getLocallyBlacklistedItems.ids)
    /\ UNCHANGED << quotes, storage, isSyncing, errorMsg, pauseSyncRef,
                    isAppReady, inflight, pc, delQ, deletedIds >>

\* the quotes of a backup file
BackupQuotes == { << >>, << qA >>, << qB, qC >> }

\* handleRestore on a valid file, confirmed: the cache is overwritten and
\* window.location.reload() starts the application again; the ledger keys
\* stay as they are, what was in flight is never handled
handleRestore(data) ==
    /\ pc = "idle"
    /\ isAppReady
    /\ tyreQuotes' = data
    /\ quotes' = << >>
    /\ isSyncing' = TRUE
    /\ errorMsg' = "none"
    /\ pauseSyncRef' = FALSE
    /\ isAppReady' = FALSE
    /\ fgFetch' = 1
    /\ bgFetch' = 0
    /\ saves' = << >>
    /\ delSoft' = 0
    /\ delFallback' = 0
    /\ hardFF' = 0
    /\ timers' = << >>
    /\ lastEvent' = Ev("restore", Empty, FALSE, << >>)
    /\ UNCHANGED << ledger, pc, delQ, deletedIds >>

BackupNext ==
    \/ Next
    \/ handleBackup
    \/ \E data \in BackupQuotes : handleRestore(data)

BackupSpec == Init /\ [][BackupNext]_vars

\* the entries of the legacy key, normalized
legacyIds == { normalize(i) : i \in blacklistedIds }

\* what the ledger reads of the fetch filter and of the backup have produced
LegacyFolded ==
    /\ lastEvent.op = "apply" =>
           \A i \in 1..Len(quotes) : normalize(quotes[i].id) \notin legacyIds
    /\ lastEvent.op = "backup" => legacyIds \subseteq lastEvent.resp
    /\ pc \in {"local", "net"} => legacyIds \subseteq bl_ids

\* C25: every read of the ledger (by the fetch filter, by the tombstoning
\* block, by the backup) has the normalized entries of the legacy key in its
\* identifier set, and no step of delete, save, fetch, refresh, backup or
\* restore changes the legacy key.
C25_LegacyFoldedNeverWritten ==
    []LegacyFolded /\ [][blacklistedIds' = blacklistedIds]_vars

\* a fetch that answered with the row 'Q1' has been applied while that
\* identifier stood in the legacy key alone
C25_Witness ==
    /\ lastEvent.op = "apply"
    /\ blacklistedIds = { << "Q", "1" >> }
    /\ bl_ids = {} /\ bl_numbers = {} /\ bl_fingerprints = {}
    /\ \E i \in 1..Len(lastEvent.resp) : lastEvent.resp[i].id = << "Q", "1" >>
    /\ quotes = << >>

(* ---------------------------------------------------------------------- *)
(* Timers and handlers under the event loop                                *)
(* ---------------------------------------------------------------------- *)

\* a handler that has started runs to its end
HandlerStep == DeleteLedger \/ DeleteLocal \/ DeleteSend

\* a setTimeout callback whose delay has passed
TimerFires == DeleteTimerFires \/ \E i \in 1..MaxPending + 1 : SaveTimerFires(i)

\* The event loop runs every started handler to its end and calls every
\* timer callback; nothing makes the network answer or the user act.
FairSpec == Spec /\ WF_vars(HandlerStep) /\ WF_vars(TimerFires)

\* C16: once the backend request of a delete or of a save has settled (the
\* cooldown timer it scheduled is pending, or the failed save has cleared the
\* flag already), the pause flag is eventually clear without any user action.
C16_PauseReleased == (timers # << >>) ~> ~pauseSyncRef

\* the soft delete of a delete has settled, its cooldown timer is pending and
\* the pause flag is still set
C16_Witness ==
    /\ timers = << "del" >>
    /\ pauseSyncRef
    /\ delSoft = 0 /\ delFallback = 0 /\ saves = << >>

(* ---------------------------------------------------------------------- *)
(* handleDeleteQuote when localStorage throws                              *)
(* ---------------------------------------------------------------------- *)

\* step 2 when getItem or setItem throws: getLocallyBlacklistedItems and the
\* tombstoning block catch and log, no ledger key is written
DeleteLedgerThrows ==
    /\ pc = "ledger"
    /\ pc' = "local"
    /\ lastEvent' = Ev("ledger_failed", delQ.id, FALSE, << >>)
    /\ UNCHANGED << quotes, storage, isSyncing, errorMsg, pauseSyncRef,
                    isAppReady, inflight, delQ, deletedIds >>

\* step 3 when setItem('tyreQuotes') throws: setQuotes has been called, the
\* write stands outside every try, so the exception leaves the handler
\* before deleteQuote is called and with the pause flag set
DeleteLocalThrows ==
    /\ pc = "local"
    /\ quotes' = SelectSeq(quotes, LAMBDA q : q.id # delQ.id)
    /\ pc' = "idle"
    /\ delQ' = NoQuote
    /\ lastEvent' = Ev("delete_threw", delQ.id, FALSE, << >>)
    /\ UNCHANGED << storage, isSyncing, errorMsg, pauseSyncRef, isAppReady,
                    inflight, deletedIds >>

StorageNext ==
    \/ Next
    \/ DeleteLedgerThrows
    \/ DeleteLocalThrows

\* the application on a localStorage whose calls can throw
StorageSpec == Init /\ [][StorageNext]_vars

\* C15: when localStorage throws during handleDeleteQuote the handler still
\* runs to its end: it does not throw, it has the tombstone of the deleted
\* quotation in force and it issues the backend delete, whose settling
\* releases the pause flag.
C15_DeleteSurvivesStorageFailure ==
    [][(pc # "idle" /\ pc' = "idle") =>
          /\ lastEvent'.op # "delete_threw"
          /\ Marked(delQ)
          /\ delSoft' = delSoft + 1]_vars

(* ---------------------------------------------------------------------- *)
(* Remote Store Adapter: the calls, each on its own                        *)
(* ---------------------------------------------------------------------- *)

\* s.startsWith(c) for a one-character c
startsWith(s, c) == Len(s) > 0 /\ s[1] = c

\* What JSON.parse makes of a body: "invalid" when it throws, else the value,
\* of which fetchQuotes reads status, data and whether it is an array.
Json(kind, status, dataIsArray, rows) ==
    [ kind |-> kind, status |-> status, dataIsArray |-> dataIsArray, rows |-> rows ]

NotJson == Json("invalid", "", FALSE, << >>)

\* the values a body of the backend script can parse to
JsonValues ==
    { Json("array", "", FALSE, r) : r \in Responses }
        \cup { Json("object", st, TRUE, r) : st \in {"success", "error", ""},
                                             r \in Responses }
        \cup { Json("object", st, FALSE, << >>) : st \in {"success", "error"} }
        \cup { Json("null", "", FALSE, << >>), Json("number", "", FALSE, << >>) }

\* first characters of a body that parses to the value v
HeadOf(v) ==
    CASE v.kind = "array"  -> { << "[" >>, << " ", "[" >> }
      [] v.kind = "object" -> { << "{" >>, << "\t", "{" >> }
      [] v.kind = "null"   -> { << "n" >> }
      [] v.kind = "number" -> { << "5" >> }

\* first characters of a body JSON.parse rejects
BadHeads == { Empty, << " " >>, << "<" >>, << " ", "<" >>, << "\t", " ", "<" >>,
              << "{" >>, << "N" >> }

\* the answers fetch() can resolve with: response.ok and response.text()
HttpResponses ==
    UNION { { [ ok |-> ok, head |-> h, json |-> v ] :
                  ok \in BOOLEAN, h \in HeadOf(v) } : v \in JsonValues }
        \cup { [ ok |-> ok, head |-> h, json |-> NotJson ] :
                   ok \in BOOLEAN, h \in BadHeads }

Threw == [ outcome |-> "threw", value |-> << >> ]
Returned(v) == [ outcome |-> "returned", value |-> v ]

\* the rows fetchQuotes takes from the parsed body
rawDataOf(result) ==
    IF result.kind = "object" /\ result.status = "success" /\ result.dataIsArray
    THEN result.rows
    ELSE IF result.kind = "array" THEN result.rows
    ELSE IF result.kind = "object" /\ result.dataIsArray THEN result.rows
    ELSE << >>

\* fetchQuotes that takes an unparsable body for an empty sheet
fetchQuotesLenient(response, today) ==
    IF ~response.ok THEN Threw
    ELSE IF startsWith(trim(response.head), "<") THEN Threw
    ELSE IF response.json = NotJson THEN Returned(<< >>)
    ELSE IF response.json.kind = "null" THEN Threw
    ELSE Returned(fetchQuotesRows(rawDataOf(response.json), today))

\* fetchQuotes once fetch() has resolved with response; reading a property
\* of null throws a TypeError, which the outer catch throws again
fetchQuotes(response, today) ==
    IF ~response.ok THEN Threw
    ELSE IF startsWith(trim(response.head), "<") THEN Threw
    ELSE IF response.json = NotJson THEN Threw
    ELSE IF response.json.kind = "null" THEN Threw
    ELSE Returned(fetchQuotesRows(rawDataOf(response.json), today))

\* what saveQuote is given by fetch(): fetched is FALSE when fetch() or
\* response.text() rejects, response is the answer otherwise
SaveAnswers ==
    { [ fetched |-> f, response |-> r ] :
          f \in BOOLEAN, r \in { h \in HttpResponses : h.json.rows = << >> } }

\* saveQuote: the inner catch takes what JSON.parse throws and, for a body
\* that parsed to null, the TypeError of result.status; it throws for a body
\* starting with '<', and the outer catch throws that again
saveQuote(answer) ==
    IF ~answer.fetched THEN Threw
    ELSE IF answer.response.json = NotJson \/ answer.response.json.kind = "null"
         THEN IF startsWith(trim(answer.response.head), "<") THEN Threw
              ELSE Returned(<< >>)
         ELSE Returned(<< >>)

\* whether the soft-delete request and the hard-delete request succeed
DeleteOutcomes == [ soft : BOOLEAN, hard : BOOLEAN ]

\* deleteQuote whose fallback hard delete is awaited outside any try
deleteQuoteFallbackUncaught(net) ==
    IF net.soft
    THEN Returned(<< "save", "delete" >>)
    ELSE IF net.hard
         THEN Returned(<< "save", "Backend delete failed", "delete" >>)
         ELSE Threw

\* deleteQuote; the value returned lists the requests sent and the errors
\* logged.  After a soft delete that succeeded the hard delete is sent and
\* not awaited, and its rejection ends in .catch(() => {}); after one that
\* failed the hard delete is awaited inside its own try.
deleteQuote(net) ==
    IF net.soft
    THEN Returned(<< "save", "delete" >>)
    ELSE IF net.hard
         THEN Returned(<< "save", "Backend delete failed", "delete" >>)
         ELSE Returned(<< "save", "Backend delete failed", "delete",
                          "Hard delete also failed" >>)

\* wall-clock dates of two sessions
Dates == { << "5" >>, << "6" >> }

UndefinedText == << "u", "n", "d", "e", "f", "i", "n", "e", "d" >>
NullText == << "n", "u", "l", "l" >>

\* values of the id column of a backend row
RowIds ==
    { Undefined, Null, Empty, UndefinedText, NullText, << " " >>,
      << " ", "n", "u", "l", "l" >>, << "q", "1" >>, << " ", "q", "1", "\t" >>,
      GenMarker \o << "1" >> }

\* backend rows, with and without identifier, number, customer and date
NormRows ==
    UNION { { RawRow(id, Undefined, qn, Undefined, cn, Undefined, d, Undefined, st),
              RawRow(Undefined, id, Undefined, qn, Undefined, cn, Undefined, d, st) } :
                id \in RowIds,
                qn \in { Undefined, << "N", " ", "1" >> },
                cn \in { Undefined, << "R" >> },
                d  \in { Undefined, << "5" >>, << "5", "T", "9" >> },
                st \in { Undefined, << "Sent" >> } }

\* data.id || data.Id || ''
rawId(data) == OrElse(data.id, OrElse(data.Id, Empty))

\* quotations whose date, customer and number differ in case, in whitespace
\* and in the place of an underscore
FingerprintQuotes ==
    { [ id |-> << "q", "1" >>, quoteNumber |-> qn, date |-> d,
        customerName |-> cn, status |-> Draft ] :
          d  \in { << "5" >>, << "5", " " >> },
          cn \in { << "r" >>, << "R" >>, << " ", "r" >>, << "z" >>,
                   << "r", "_", "n" >>, << "r", " ", " ", "n" >> },
          qn \in { << "n" >>, << "N" >>, << "n", "_", "n" >>, << "1" >> } }

\* the three fields of the fingerprint, each normalized on its own
normalizedTriple(q) ==
    << normalize(q.date), normalize(q.customerName), normalize(q.quoteNumber) >>

\* the values normalize is given: null, undefined and every text of up to
\* MaxText characters with capitals, digits, spaces and tabs
NormalizeInputs ==
    { Null, Undefined }
        \cup UNION { [1..k -> { " ", "\t", "N", "1" }] : k \in 0..MaxText }

(* QuoteCard.  Amounts are counted in hundredths: unitAmount 125 is 1.25. *)

\* quote.lineItems.reduce((acc, item) => acc + item.quantity * item.unitAmount, 0)
RECURSIVE grossTotal(_)
grossTotal(lineItems) ==
    IF lineItems = << >> THEN 0
    ELSE grossTotal(SubSeq(lineItems, 1, Len(lineItems) - 1))
             + lineItems[Len(lineItems)].quantity * lineItems[Len(lineItems)].unitAmount

\* Math.round of an amount in hundredths, in units: floor(x + 0.5)
MathRound(x) == (x + 50) \div 100

\* QuoteCard that shows the gross total
QuoteCardGross(quote) ==
    LET grandTotal == MathRound(grossTotal(quote.lineItems))
    IN  IF quote.isOptionQuote
        THEN [ shown |-> "Multiple Options", total |-> 0 ]
        ELSE [ shown |-> "grandTotal", total |-> grandTotal ]

\* what the card of a quotation shows in its total line
QuoteCard(quote) ==
    LET totalAfterDiscount == grossTotal(quote.lineItems) - quote.discount
        grandTotal == MathRound(totalAfterDiscount)
    IN  IF quote.isOptionQuote
        THEN [ shown |-> "Multiple Options", total |-> 0 ]
        ELSE [ shown |-> "grandTotal", total |-> grandTotal ]

LineItems == [ quantity : {1, 3}, unitAmount : {0, 50, 125, 1000} ]

\* quotations with up to MaxItems line items, with and without discount
CardQuotes ==
    [ lineItems : UNION { [1..k -> LineItems] : k \in 0..MaxItems },
      discount : {0, 25, 450},
      isOptionQuote : BOOLEAN ]

(* normalizeQuote: line items, discount and tax rate *)

\* A JSON text as its tokens: brackets, braces, commas and line items.
Token(t, item) == [ t |-> t, item |-> item ]
NoItem == [ quantity |-> 0, unitAmount |-> 0 ]
Punct(t) == Token(t, NoItem)

\* JSON.stringify of a list of line items
RECURSIVE stringifyItems(_)
stringifyItems(list) ==
    IF list = << >> THEN << >>
    ELSE IF Len(list) = 1 THEN << Token("item", list[1]) >>
    ELSE << Token("item", list[1]), Punct(",") >> \o stringifyItems(Tail(list))

stringify(list) == << Punct("[") >> \o stringifyItems(list) \o << Punct("]") >>

\* JSON.parse of a text of such tokens: ok is FALSE where it throws
JSONparse(text) ==
    LET n     == Len(text)
        inner == SubSeq(text, 2, n - 1)
        m     == Len(inner)
    IN  IF n = 2 /\ text[1].t = "{" /\ text[2].t = "}"
        THEN [ ok |-> TRUE, isArray |-> FALSE, items |-> << >> ]
        ELSE IF /\ n >= 2 /\ text[1].t = "[" /\ text[n].t = "]"
                /\ (m = 0 \/ m % 2 = 1)
                /\ \A i \in 1..m : inner[i].t = IF i % 2 = 1 THEN "item" ELSE ","
        THEN [ ok |-> TRUE, isArray |-> TRUE,
               items |-> [i \in 1..((m + 1) \div 2) |-> inner[2 * i - 1].item] ]
        ELSE [ ok |-> FALSE, isArray |-> FALSE, items |-> << >> ]

\* a value of data.lineItems: kind is "undefined", "array" or "string"
ItemsValue(kind, value) == [ kind |-> kind, value |-> value ]

\* a || b for line-item values: an array is truthy, the empty string is not
ItemsOrElse(a, b) ==
    IF a.kind = "array" \/ (a.kind = "string" /\ a.value # << >>) THEN a ELSE b

\* parseLineItems that gives a string up
parseLineItemsArraysOnly(items) ==
    IF items.kind = "array" THEN [ isArray |-> TRUE, items |-> items.value ]
    ELSE [ isArray |-> TRUE, items |-> << >> ]

parseLineItems(items) ==
    IF items.kind = "array" THEN [ isArray |-> TRUE, items |-> items.value ]
    ELSE IF items.kind = "string"
         THEN LET r == JSONparse(items.value)
              IN  IF r.ok THEN [ isArray |-> r.isArray, items |-> r.items ]
                  ELSE [ isArray |-> TRUE, items |-> << >> ]
         ELSE [ isArray |-> TRUE, items |-> << >> ]

\* Number(v) for null, '' and a text of digits
RECURSIVE Number(_)
Number(v) ==
    IF v = Null \/ v = Empty THEN 0
    ELSE 10 * Number(SubSeq(v, 1, Len(v) - 1)) + (charCodeAt(v[Len(v)]) - 48)

\* the fields of normalizeQuote's result computed from lineItems, discount
\* and taxRate
normalizeQuoteDetails(data) ==
    [ lineItems |-> parseLineItems(ItemsOrElse(data.lineItems, data.line_items)),
      discount  |-> IF Truthy(data.discount) THEN Number(data.discount) ELSE 0,
      taxRate   |-> IF data.taxRate # Undefined THEN Number(data.taxRate)
                    ELSE IF data.tax_rate # Undefined THEN Number(data.tax_rate)
                    ELSE 18 ]

ItemLists == UNION { [1..k -> { [ quantity |-> 1, unitAmount |-> 50 ],
                                [ quantity |-> 3, unitAmount |-> 125 ] }] :
                         k \in 0..MaxItems }

\* values of the lineItems column: missing, a list, the JSON text of a list,
\* that text cut short, the empty text and the text of an object
ItemsInputs ==
    { ItemsValue("undefined", << >>), ItemsValue("string", << >>),
      ItemsValue("string", << Punct("{"), Punct("}") >>) }
        \cup { ItemsValue("array", l) : l \in ItemLists }
        \cup { ItemsValue("string", stringify(l)) : l \in ItemLists }
        \cup { ItemsValue("string", SubSeq(stringify(l), 1, Len(l) * 2)) :
                   l \in ItemLists }

DetailRows ==
    [ lineItems  : ItemsInputs,
      line_items : { ItemsValue("undefined", << >>),
                     ItemsValue("array", << NoItem >>) },
      discount   : { Undefined, << "0" >>, << "2", "5" >> },
      taxRate    : { Undefined, Null, Empty, << "5" >>, << "1", "8" >> },
      tax_rate   : { Undefined, << "1", "2" >> } ]

\* lastEvent of an adapter call: the function, its argument and, once the
\* call has run, its result
Call(op, arg, done, ret) == [ op |-> op, arg |-> arg, done |-> done, ret |-> ret ]

Ran(op) == lastEvent.op = op /\ lastEvent.done

AdapterCalls ==
    { Call("fetchQuotes", r, FALSE, Threw) : r \in HttpResponses }
        \cup { Call("saveQuote", a, FALSE, Threw) : a \in SaveAnswers }
        \cup { Call("deleteQuote", n, FALSE, Threw) : n \in DeleteOutcomes }
        \cup { Call("normalizeQuote", [ data |-> r, today |-> d ], FALSE, NoQuote) :
                   r \in NormRows, d \in Dates }
        \cup { Call("getQuoteFingerprint", q, FALSE, Empty) : q \in FingerprintQuotes }
        \cup { Call("normalize", v, FALSE, Empty) : v \in NormalizeInputs }
        \cup { Call("QuoteCard", q, FALSE, [ shown |-> "", total |-> 0 ]) :
                   q \in CardQuotes }
        \cup { Call("normalizeQuoteDetails", r, FALSE,
                     [ lineItems |-> [ isArray |-> TRUE, items |-> << >> ],
                       discount |-> 0, taxRate |-> 0 ]) : r \in DetailRows }

\* the application as constructed, and one adapter call about to run
AdapterInit ==
    /\ quotes = << >>
    /\ tyreQuotes = << >>
    /\ bl_ids = {}
    /\ bl_numbers = {}
    /\ bl_fingerprints = {}
    /\ blacklistedIds \in { {}, { << "Q", "1" >> } }
    /\ isSyncing = TRUE
    /\ errorMsg = "none"
    /\ pauseSyncRef = FALSE
    /\ isAppReady = FALSE
    /\ fgFetch = 0
    /\ bgFetch = 0
    /\ saves = << >>
    /\ delSoft = 0
    /\ delFallback = 0
    /\ hardFF = 0
    /\ timers = << >>
    /\ pc = "idle"
    /\ delQ = NoQuote
    /\ lastEvent \in AdapterCalls
    /\ deletedIds = {}

\* an adapter call touches nothing of the component
AdapterFrame ==
    UNCHANGED << quotes, storage, isSyncing, errorMsg, pauseSyncRef, isAppReady,
                 inflight, pc, delQ, deletedIds >>

CallFetchQuotes ==
    /\ lastEvent.op = "fetchQuotes" /\ ~lastEvent.done
    /\ lastEvent' = [lastEvent EXCEPT !.done = TRUE,
                                      !.ret = fetchQuotes(lastEvent.arg, Today)]
    /\ AdapterFrame

CallSaveQuote ==
    /\ lastEvent.op = "saveQuote" /\ ~lastEvent.done
    /\ lastEvent' = [lastEvent EXCEPT !.done = TRUE,
                                      !.ret = saveQuote(lastEvent.arg)]
    /\ AdapterFrame

CallDeleteQuote ==
    /\ lastEvent.op = "deleteQuote" /\ ~lastEvent.done
    /\ lastEvent' = [lastEvent EXCEPT !.done = TRUE,
                                      !.ret = deleteQuote(lastEvent.arg)]
    /\ AdapterFrame

CallNormalizeQuote ==
    /\ lastEvent.op = "normalizeQuote" /\ ~lastEvent.done
    /\ lastEvent' = [lastEvent EXCEPT
                         !.done = TRUE,
                         !.ret = normalizeQuote(lastEvent.arg.data, lastEvent.arg.today)]
    /\ AdapterFrame

CallGetQuoteFingerprint ==
    /\ lastEvent.op = "getQuoteFingerprint" /\ ~lastEvent.done
    /\ lastEvent' = [lastEvent EXCEPT !.done = TRUE,
                                      !.ret = getQuoteFingerprint(lastEvent.arg)]
    /\ AdapterFrame

CallNormalize ==
    /\ lastEvent.op = "normalize" /\ ~lastEvent.done
    /\ lastEvent' = [lastEvent EXCEPT !.done = TRUE,
                                      !.ret = normalize(lastEvent.arg)]
    /\ AdapterFrame

CallQuoteCard ==
    /\ lastEvent.op = "QuoteCard" /\ ~lastEvent.done
    /\ lastEvent' = [lastEvent EXCEPT !.done = TRUE,
                                      !.ret = QuoteCard(lastEvent.arg)]
    /\ AdapterFrame

CallNormalizeQuoteDetails ==
    /\ lastEvent.op = "normalizeQuoteDetails" /\ ~lastEvent.done
    /\ lastEvent' = [lastEvent EXCEPT !.done = TRUE,
                                      !.ret = normalizeQuoteDetails(lastEvent.arg)]
    /\ AdapterFrame

AdapterNext ==
    \/ CallFetchQuotes
    \/ CallSaveQuote
    \/ CallDeleteQuote
    \/ CallNormalizeQuote
    \/ CallGetQuoteFingerprint
    \/ CallNormalize
    \/ CallQuoteCard
    \/ CallNormalizeQuoteDetails

AdapterSpec == AdapterInit /\ [][AdapterNext]_vars

\* C12: fetchQuotes throws, and returns no list at all, whenever the HTTP
\* status is not successful, the trimmed body starts with '<' or the body is
\* not parsable as JSON.
C12_FetchQuotesFailsFast ==
    Ran("fetchQuotes") =>
        LET response == lastEvent.arg
        IN  (\/ ~response.ok
             \/ startsWith(trim(response.head), "<")
             \/ response.json = NotJson)
                => lastEvent.ret = Threw

\* fetchQuotes has thrown on a successful answer whose body is no JSON and
\* starts with something other than '<'
C12_Witness ==
    /\ Ran("fetchQuotes")
    /\ lastEvent.arg.ok
    /\ lastEvent.arg.json = NotJson
    /\ ~ startsWith(trim(lastEvent.arg.head), "<")
    /\ lastEvent.ret = Threw

\* C13: saveQuote rejects only when the network request itself fails: once
\* the request has completed with a response, whatever its body (HTML,
\* invalid JSON, a status other than success), saveQuote resolves.
C13_SaveRejectsOnlyOnNetworkFailure ==
    (Ran("saveQuote") /\ lastEvent.arg.fetched) => lastEvent.ret # Threw

\* C14: deleteQuote never rejects: whichever of the soft-delete and the
\* hard-delete request fail, the promise it returns resolves, and a failed
\* hard delete after a successful soft delete leaves no trace for the caller.
C14_DeleteQuoteNeverRejects ==
    Ran("deleteQuote") =>
        /\ lastEvent.ret.outcome = "returned"
        /\ lastEvent.arg.soft => lastEvent.ret = Returned(<< "save", "delete" >>)

\* deleteQuote has resolved with both requests failed
C14_Witness ==
    /\ Ran("deleteQuote")
    /\ ~lastEvent.arg.soft /\ ~lastEvent.arg.hard
    /\ lastEvent.ret.outcome = "returned"

\* C17: for a row whose identifier is missing, empty, "undefined" or "null"
\* the identifier normalizeQuote assigns depends on the row alone: the same
\* row normalized on another date gets the same identifier.
C17_GeneratedIdStable ==
    (Ran("normalizeQuote")
        /\ rawId(lastEvent.arg.data) \in { Empty, UndefinedText, NullText })
    => \A d \in Dates : normalizeQuote(lastEvent.arg.data, d).id = lastEvent.ret.id

\* C18: for a row that carries an identifier other than the empty string,
\* "undefined" and "null", normalizeQuote returns that identifier as it is.
C18_IdTrustedAsIs ==
    (Ran("normalizeQuote")
        /\ rawId(lastEvent.arg.data) \notin { Empty, UndefinedText, NullText })
    => lastEvent.ret.id = rawId(lastEvent.arg.data)

\* C18, amended: when the identifier without its surrounding whitespace is
\* not the empty string, "undefined" or "null", normalizeQuote returns the
\* identifier without its surrounding whitespace and generates nothing.
C18_TrimmedIdTrusted ==
    (Ran("normalizeQuote")
        /\ trim(rawId(lastEvent.arg.data)) \notin { Empty, UndefinedText, NullText })
    => lastEvent.ret.id = trim(rawId(lastEvent.arg.data))

\* a row whose identifier starts with the generated-id marker has kept it
C18_Witness ==
    /\ Ran("normalizeQuote")
    /\ rawId(lastEvent.arg.data) = GenMarker \o << "1" >>
    /\ lastEvent.ret.id = GenMarker \o << "1" >>

\* C19: whatever the body, the list fetchQuotes returns holds no record whose
\* status is Deleted, and it holds every other row of the body.
C19_NoDeletedReturned ==
    (Ran("fetchQuotes") /\ lastEvent.ret.outcome = "returned") =>
        LET rawData == rawDataOf(lastEvent.arg.json)
            live    == SelectSeq(rawData, LAMBDA r : r.status # Deleted)
        IN  /\ \A i \in 1..Len(lastEvent.ret.value) :
                   lastEvent.ret.value[i].status # Deleted
            /\ Len(lastEvent.ret.value) = Len(live)

\* fetchQuotes has returned one record for a body of two rows, of which one
\* is marked Deleted
C19_Witness ==
    /\ Ran("fetchQuotes")
    /\ lastEvent.ret.outcome = "returned"
    /\ Len(rawDataOf(lastEvent.arg.json)) = 2
    /\ \E i \in 1..2 : rawDataOf(lastEvent.arg.json)[i].status = Deleted
    /\ Len(lastEvent.ret.value) = 1

\* C20: two quotations whose dates, customer names and quote numbers, each
\* normalized, are not the same three strings have different fingerprints.
C20_FingerprintCollisionFree ==
    Ran("getQuoteFingerprint") =>
        \A q \in FingerprintQuotes :
            normalizedTriple(q) # normalizedTriple(lastEvent.arg)
                => getQuoteFingerprint(q) # lastEvent.ret

NoUnderscore(q) ==
    \A f \in { q.date, q.customerName, q.quoteNumber } :
        \A i \in 1..Len(f) : f[i] # "_"

\* C20, amended: two quotations whose dates, customer names and quote numbers
\* are strings without an underscore and, each normalized, are not the same
\* three strings have different fingerprints.
C20_FingerprintSeparatesPlainFields ==
    (Ran("getQuoteFingerprint") /\ NoUnderscore(lastEvent.arg)) =>
        \A q \in FingerprintQuotes :
            (NoUnderscore(q) /\ normalizedTriple(q) # normalizedTriple(lastEvent.arg))
                => getQuoteFingerprint(q) # lastEvent.ret

\* the fingerprint of a quotation without underscores has been computed, and
\* another one differs from it in the customer name alone
C20_Witness ==
    /\ Ran("getQuoteFingerprint")
    /\ NoUnderscore(lastEvent.arg)
    /\ \E q \in FingerprintQuotes :
           /\ NoUnderscore(q)
           /\ q.date = lastEvent.arg.date
           /\ q.quoteNumber = lastEvent.arg.quoteNumber
           /\ normalize(q.customerName) # normalize(lastEvent.arg.customerName)
           /\ getQuoteFingerprint(q) # lastEvent.ret

\* C21: normalize is idempotent: normalizing what normalize returned, for a
\* text, for null and for undefined, gives the same string again, and so
\* does normalizing a fingerprint.
C21_NormalizeIdempotent ==
    (Ran("normalize") \/ Ran("getQuoteFingerprint"))
        => normalize(lastEvent.ret) = lastEvent.ret

\* normalize has changed a text with capitals and with whitespace at its
\* start, inside and at its end
C21_Witness ==
    /\ Ran("normalize")
    /\ lastEvent.arg = << " ", " ", "N" >>
    /\ lastEvent.ret = << "n" >>

\* C22: the card of a quotation that is not an option quote shows the integer
\* nearest to the sum of quantity times unit amount over its line items minus
\* the discount (a half rounds up); the card of an option quote shows no
\* grand total.
C22_GrandTotal ==
    Ran("QuoteCard") =>
        LET quote == lastEvent.arg
            exact == grossTotal(quote.lineItems) - quote.discount
        IN  IF quote.isOptionQuote
            THEN lastEvent.ret.shown = "Multiple Options"
            ELSE /\ lastEvent.ret.shown = "grandTotal"
                 /\ 100 * lastEvent.ret.total - exact \in -49..50

\* the card of a quotation with two line items and a discount shows a total
\* that was rounded up from a half
C22_Witness ==
    /\ Ran("QuoteCard")
    /\ ~lastEvent.arg.isOptionQuote
    /\ Len(lastEvent.arg.lineItems) = 2
    /\ lastEvent.arg.discount = 25
    /\ (grossTotal(lastEvent.arg.lineItems) - 25) % 100 = 50
    /\ lastEvent.ret.shown = "grandTotal"

\* the row with every value under its first key
firstKeys(data) ==
    RawRow(OrElse(data.id, data.Id), Undefined,
           OrElse(data.quoteNumber, data.quote_number), Undefined,
           OrElse(data.customerName, data.customer_name), Undefined,
           OrElse(data.date, data.Date), Undefined, data.status)

\* C26: normalizeQuote returns for every row, whichever of its two keys a
\* value stands under: a date that is a timestamp comes back cut before its
\* 'T', a missing status comes back as Draft, line items given as the JSON
\* text of a list come back as that list and as the empty list when the text
\* is unparsable, and a tax rate missing under both keys comes back as 18.
C26_NormalizeQuoteTolerant ==
    /\ Ran("normalizeQuote") =>
           LET data == lastEvent.arg.data
               d    == trim(OrElse(data.date, OrElse(data.Date, Empty)))
           IN  /\ lastEvent.ret = normalizeQuote(firstKeys(data), lastEvent.arg.today)
               /\ \A k \in 2..Len(d) :
                      (d[k] = "T" /\ \A j \in 1..(k - 1) : d[j] # "T")
                          => lastEvent.ret.date = SubSeq(d, 1, k - 1)
               /\ lastEvent.ret.status =
                      (IF Truthy(data.status) THEN data.status ELSE Draft)
    /\ Ran("normalizeQuoteDetails") =>
           LET data  == lastEvent.arg
               items == data.lineItems
           IN  /\ \A l \in ItemLists :
                      items = ItemsValue("string", stringify(l))
                          => lastEvent.ret.lineItems = [ isArray |-> TRUE, items |-> l ]
               /\ (items.kind = "string" /\ items.value # << >>
                       /\ ~JSONparse(items.value).ok)
                      => lastEvent.ret.lineItems = [ isArray |-> TRUE, items |-> << >> ]
               /\ (data.taxRate = Undefined /\ data.tax_rate = Undefined)
                      => lastEvent.ret.taxRate = 18

\* a row with its line items as the JSON text of two items and without tax
\* rate has been normalized
C26_Witness ==
    /\ Ran("normalizeQuoteDetails")
    /\ lastEvent.arg.lineItems.kind = "string"
    /\ lastEvent.arg.taxRate = Undefined /\ lastEvent.arg.tax_rate = Undefined
    /\ Len(lastEvent.ret.lineItems.items) = 2
    /\ lastEvent.ret.taxRate = 18

(* ---------------------------------------------------------------------- *)
(* fetchRemoteQuotes on the answers of the endpoint                        *)
(* ---------------------------------------------------------------------- *)

\* fetchRemoteQuotes once fetch() has resolved with response: fetchQuotes
\* throws or returns, and the handler goes on with what it returned
FetchSettle(isBackground, response) ==
    IF fetchQuotes(response, Today) = Threw
    THEN FetchReject(isBackground)
    ELSE FetchResolve(isBackground, rawDataOf(response.json))

\* valid JSON in none of the three accepted shapes, answered with HTTP 200
NoEnvelope ==
    { r \in HttpResponses :
          /\ r.ok
          /\ r.json # NotJson
          /\ r.json.kind # "array"
          /\ ~r.json.dataIsArray }

EnvelopeNext ==
    \/ IntervalTick
    \/ handleRefresh
    \/ \E b \in BOOLEAN, response \in HttpResponses : FetchSettle(b, response)
    \/ \E id \in QuoteIds : DeleteNotFound(id)
    \/ \E id \in QuoteIds : DeletePause(id)
    \/ DeleteLedger
    \/ DeleteLocal
    \/ DeleteSend
    \/ SoftDeleteResolve
    \/ SoftDeleteReject
    \/ \E ok \in BOOLEAN : FallbackSettle(ok)
    \/ \E ok \in BOOLEAN : HardDeleteSettle(ok)
    \/ DeleteTimerFires

EnvelopeSpec == Init /\ [][EnvelopeNext]_vars

\* C27: a fetch answered with valid JSON in none of the three accepted
\* shapes is not taken for an empty sheet: the list on screen and the cached
\* list are not emptied by it.
C27_NoEnvelopeNotApplied ==
    [][\A b \in BOOLEAN, response \in NoEnvelope :
           (FetchSettle(b, response) /\ quotes # << >>)
               => (quotes' # << >> /\ tyreQuotes' # << >>)]_vars

\* C28: from the moment handleSaveQuote starts its upload until that upload
\* settles, no fetch result is applied to the list on screen or to the cache.
C28_NoApplyWhileSaving ==
    [][saves # << >> => ~Applied]_vars

\* what a step takes out of the stored ledger keys
Removed ==
    [ ids          |-> bl_ids \ bl_ids',
      numbers      |-> bl_numbers \ bl_numbers',
      fingerprints |-> bl_fingerprints \ bl_fingerprints',
      legacy       |-> blacklistedIds \ blacklistedIds' ]

\* C29: only handleSaveQuote takes entries out of the ledger, and only the
\* saved quotation's own normalized identifier, normalized quote number and
\* fingerprint; a save of a quotation the ledger does not match leaves the
\* ledger as it is, and so does every other step (fetch application,
\* refresh, delete, timers).
C29_OnlySaveRemovesOwnEntries ==
    [][IF Len(saves') > Len(saves)
       THEN LET q == SavedQuote(saves'[Len(saves')])
            IN  /\ Removed.ids \subseteq { normalize(q.id) }
                /\ Removed.numbers \subseteq { normalize(q.quoteNumber) }
                /\ Removed.fingerprints \subseteq { getQuoteFingerprint(q) }
                /\ Removed.legacy = {}
                /\ ~Tombstoned(q, getLocallyBlacklistedItems) => UNCHANGED ledger
       ELSE /\ Removed.ids = {}
            /\ Removed.numbers = {}
            /\ Removed.fingerprints = {}
            /\ Removed.legacy = {}]_vars

\* a save took the quote number it shares with a deleted quotation out of
\* the ledger and left that quotation's identifier in
C29_Witness ==
    /\ saves # << >>
    /\ bl_numbers = {}
    /\ bl_ids # {}
    /\ \A k \in 1..Len(saves) : normalize(saves[k]) \notin bl_ids

\* C30: saving a quotation B leaves every deleted quotation A with another
\* identifier tombstoned: A, filtered out of a fetch before the save, is
\* still filtered out after it, also when B has A's quote number or A's
\* fingerprint.
C30_SaveKeepsOthersTombstoned ==
    [][Len(saves') > Len(saves)
          => \A a \in deletedIds \ { saves'[Len(saves')] } :
                 isFilteredOut(SavedQuote(a), getLocallyBlacklistedItems)
                     => isFilteredOut(SavedQuote(a), getLocallyBlacklistedItems')]_vars

\* C31: after every step of a handler that changes the list on screen (fetch
\* application, handleSaveQuote, handleDeleteQuote, restore) the cached list
\* is the list on screen.
C31_CacheIsList ==
    [][quotes' # quotes => tyreQuotes' = quotes']_vars

\* C32: when the first fetch after the start of the application fails, the
\* list on screen is the cached list and the failure is in the error slot.
C32_StartFallsBackToCache ==
    [][(~isAppReady /\ isAppReady' /\ lastEvent'.op = "fetch_failed")
          => (quotes' = tyreQuotes' /\ errorMsg' = "error")]_vars

\* C33: a background refresh leaves the error slot as it is, when it starts
\* and when it is applied, fails or is discarded.
C33_BackgroundKeepsError ==
    [][(bgFetch' # bgFetch /\ fgFetch' = fgFetch) => errorMsg' = errorMsg]_vars

====
